---- MODULE Spec2Model ----
(***************************************************************************)
(* BitmapMessage_v02.py: an image is thresholded into a text bitmap        *)
(* (convert_image_to_bitmap), the bitmap's '*' cells are filled with the   *)
(* characters of a message (create_ascii_art), and main() drives both      *)
(* behind a file dialog and two console prompts (get_input).               *)
(*                                                                         *)
(* Python strings are sequences of one-character strings.  Python values   *)
(* that a variable may or may not hold yet are tagged records.             *)
(* An image is the single-channel ("L") intensity grid, px[y][x].          *)
(*                                                                         *)
(* Spec      is main(): the whole interactive pipeline.                    *)
(* SpecCore  calls convert_image_to_bitmap and create_ascii_art directly,  *)
(*           with arguments main() never passes (empty message, small or   *)
(*           non-positive width_limit, thresholds outside 0..255).         *)
(***************************************************************************)
EXTENDS Integers, Sequences, FiniteSets

VARIABLES pc, image_path, user_input, threshold, message, width_limit,
          opened, src, img, bitmap, ascii_art, out_file, err

vars == <<pc, image_path, user_input, threshold, message, width_limit,
          opened, src, img, bitmap, ascii_art, out_file, err>>

----------------------------------------------------------------------------
(* Bounds of the model.                                                    *)

\* arbitrary images have at most MaxPixels pixels
MaxPixels == 4
\* single-colour images are up to MaxWidth x MaxHeight
MaxWidth == 3
MaxHeight == 6
\* bitmaps handed straight to create_ascii_art have at most MaxLen characters
MaxLen == 3
\* messages handed straight to create_ascii_art have at most MaxMsg characters
MaxMsg == 2

\* width_limit=1000, the default parameter
DefaultWidthLimit == 1000

NL == "\n"
LIGHT == "*"
DARK == " "

Intensities == {0, 127, 128, 255}
Thresholds == {-1, 0, 128, 256}
WidthLimits == {-1, 0, 1, 2, DefaultWidthLimit}

Letters == <<"A", "B", "C", "D", "E", "F">>
Messages == {SubSeq(Letters, 1, n) : n \in 0..MaxMsg}

\* what the user may type at a prompt
UserInputs == { <<>>, <<"A", "B">>, <<"1", "2", "8">>, <<"-", "1">>,
                <<" ">>, <<" ", "7">>, <<"-">> }

----------------------------------------------------------------------------
(* Python values.                                                          *)

None == [tag |-> "None"]
PyInt(n) == [tag |-> "int", val |-> n]
PyStr(s) == [tag |-> "str", val |-> s]

----------------------------------------------------------------------------
(* Python string methods, on sequences of characters.                      *)

Whitespace == {" ", NL}

RECURSIVE Split(_)
\* s.split('\n'): the pieces between line breaks, one more than the breaks
Split(s) ==
    IF \A i \in 1..Len(s) : s[i] # NL THEN <<s>>
    ELSE LET i == CHOOSE j \in 1..Len(s) :
                      s[j] = NL /\ \A k \in 1..(j-1) : s[k] # NL
         IN  <<SubSeq(s, 1, i-1)>> \o Split(SubSeq(s, i+1, Len(s)))

\* s.splitlines(): as split('\n'), but a final line break opens no new line
SplitLines(s) ==
    LET p == Split(s)
    IN  IF p[Len(p)] = <<>> THEN SubSeq(p, 1, Len(p)-1) ELSE p

RECURSIVE Join(_)
\* '\n'.join(lines)
Join(lines) ==
    IF Len(lines) = 0 THEN <<>>
    ELSE IF Len(lines) = 1 THEN lines[1]
    ELSE Join(SubSeq(lines, 1, Len(lines)-1)) \o <<NL>> \o lines[Len(lines)]

RECURSIVE LStrip(_)
LStrip(line) ==
    IF Len(line) > 0 /\ line[1] \in Whitespace
    THEN LStrip(SubSeq(line, 2, Len(line)))
    ELSE line

RECURSIVE RStripWs(_)
RStripWs(line) ==
    IF Len(line) > 0 /\ line[Len(line)] \in Whitespace
    THEN RStripWs(SubSeq(line, 1, Len(line)-1))
    ELSE line

StripBothEnds(line) == LStrip(RStripWs(line))

\* line.rstrip()
RStrip(line) == RStripWs(line)

----------------------------------------------------------------------------
(* Images.                                                                 *)

Image(w, h, p) == [width |-> w, height |-> h, px |-> p]
NoImage == Image(0, 0, <<>>)

\* every w x h grid of intensities
Grids(w, h) == [1..h -> [1..w -> Intensities]]
ImagesOf(w, h) == {Image(w, h, p) : p \in Grids(w, h)}

SmallImages ==
    UNION {ImagesOf(d[1], d[2]) :
             d \in {e \in (1..MaxPixels) \X (1..MaxPixels) : e[1] * e[2] <= MaxPixels}}

PlainImages ==
    {Image(w, h, [y \in 1..h |-> [x \in 1..w |-> c]]) :
       w \in 1..MaxWidth, h \in 1..MaxHeight, c \in Intensities}

\* what Image.open(image_path) may find on disk
ImageFile(i) == [kind |-> "image", image |-> i]
MissingFile == [kind |-> "missing", image |-> NoImage]
UndecodableFile == [kind |-> "undecodable", image |-> NoImage]
Files == {ImageFile(i) : i \in SmallImages \cup PlainImages}
           \cup {MissingFile, UndecodableFile}

----------------------------------------------------------------------------
(* convert_image_to_bitmap.                                                *)

\* int(x) of the quotient n / d, d > 0: truncation toward zero
Trunc(n, d) == IF n >= 0 THEN n \div d ELSE -((-n) \div d)

\* round(x) of the quotient n / d, n >= 0, d > 0: nearest, ties to even
Round(n, d) ==
    LET q == n \div d
        r == n % d
    IN  IF 2 * r < d THEN q
        ELSE IF 2 * r > d THEN q + 1
        ELSE IF q % 2 = 0 THEN q ELSE q + 1

NewHeightRounded(i, limit) ==
    IF limit >= 0 THEN Round(i.height * limit * 55, i.width * 100)
    ELSE -Round(i.height * (-limit) * 55, i.width * 100)

\* new_height = int(aspect_ratio * width_limit * 0.55)
NewHeight(i, limit) == Trunc(i.height * limit * 55, i.width * 100)

NeedsResizeOrEqual(i, limit) == i.width >= limit

\* if img.width > width_limit
NeedsResize(i, limit) == i.width > limit

\* img.resize((w, h), LANCZOS) raises ValueError unless both sizes are >= 1
ResizeRaises(w, h) == w < 1 \/ h < 1

\* the images img.resize may return: size (w, h), resampled intensities
Resized(i, limit) ==
    IF NeedsResize(i, limit)
    THEN IF ResizeRaises(limit, NewHeight(i, limit)) THEN {}
         ELSE ImagesOf(limit, NewHeight(i, limit))
    ELSE {i}

ClassifyInclusive(p, t) == IF p <= t THEN DARK ELSE LIGHT

\* if img.getpixel((x,y)) < threshold: " " else: "*"
Classify(p, t) == IF p < t THEN DARK ELSE LIGHT

ScanLine(i, y, t) == [x \in 1..i.width |-> Classify(i.px[y][x], t)]

RECURSIVE RawRows(_, _, _)
\* the loop over y: every scanline followed by a line break
RawRows(i, y, t) ==
    IF y > i.height THEN <<>>
    ELSE ScanLine(i, y, t) \o <<NL>> \o RawRows(i, y + 1, t)

RawBitmap(i, t) == RawRows(i, 1, t)

\* '\n'.join(line.rstrip() for line in bitmap.splitlines())
TrimmedBitmap(raw) ==
    LET lines == SplitLines(raw)
    IN  Join([k \in 1..Len(lines) |-> RStrip(lines[k])])

\* the outcome of Image.open: "ok", or the exception an except clause catches
OpenOutcome(file) ==
    CASE file.kind = "missing" -> "FileNotFoundError"
      [] file.kind = "undecodable" -> "Exception"
      [] OTHER -> "ok"

----------------------------------------------------------------------------
(* create_ascii_art.                                                       *)

\* the message character of a LIGHT cell, were i to count the LIGHT cells only
ComposeLineLightOnly(line, msg) ==
    [k \in 1..Len(line) |->
        IF line[k] = LIGHT
        THEN msg[(Cardinality({j \in 1..(k-1) : line[j] = LIGHT}) % Len(msg)) + 1]
        ELSE DARK]

\* ''.join(message[i % len(message)] if bit == '*' else ' '
\*         for i, bit in enumerate(line)); i is k - 1
ComposeLine(line, msg) ==
    [k \in 1..Len(line) |->
        IF line[k] = LIGHT THEN msg[((k - 1) % Len(msg)) + 1] ELSE DARK]

\* i % len(message) is evaluated for '*' cells only: ZeroDivisionError
ComposeRaises(bm, msg) ==
    Len(msg) = 0 /\ \E k \in 1..Len(bm) : bm[k] = LIGHT

\* '\n'.join(ascii_art), ascii_art the composed bitmap.splitlines()
ComposeAll(bm, msg) ==
    LET lines == SplitLines(bm)
    IN  Join([k \in 1..Len(lines) |-> ComposeLine(lines[k], msg)])

----------------------------------------------------------------------------
(* get_input.                                                              *)

Digits == {"0", "1", "2", "3", "4", "5", "6", "7", "8", "9"}

DigitValue(c) ==
    CASE c = "0" -> 0 [] c = "1" -> 1 [] c = "2" -> 2 [] c = "3" -> 3
      [] c = "4" -> 4 [] c = "5" -> 5 [] c = "6" -> 6 [] c = "7" -> 7
      [] c = "8" -> 8 [] c = "9" -> 9

RECURSIVE DigitsValue(_)
DigitsValue(ds) ==
    IF Len(ds) = 0 THEN 0
    ELSE 10 * DigitsValue(SubSeq(ds, 1, Len(ds)-1)) + DigitValue(ds[Len(ds)])

\* int(s) first strips the white space around s
PyStrip(s) == LStrip(RStripWs(s))

Signed(s) == Len(s) > 0 /\ s[1] \in {"+", "-"}
Unsigned(s) == IF Signed(s) THEN SubSeq(s, 2, Len(s)) ELSE s

\* int(s) raises ValueError unless s is an optional sign and decimal digits
IntRaises(s) ==
    LET body == Unsigned(PyStrip(s))
    IN  Len(body) = 0 \/ \E k \in 1..Len(body) : body[k] \notin Digits

IntOf(s) ==
    LET t == PyStrip(s)
        v == DigitsValue(Unsigned(t))
    IN  IF Signed(t) /\ t[1] = "-" THEN -v ELSE v

\* cast_to(user_input) raises ValueError; str(s) never does
CastRaises(cast_to, s) == cast_to = "int" /\ IntRaises(s)

Cast(cast_to, s) == IF cast_to = "int" THEN PyInt(IntOf(s)) ELSE PyStr(s)

AcceptsEmpty(s) == FALSE

\* if not user_input
InputIsEmpty(s) == Len(s) = 0

\* one turn of the while loop: the value returned, or None on "continue"
GetInputTurn(s, cast_to) ==
    IF InputIsEmpty(s) THEN None
    ELSE IF cast_to # "None"
         THEN IF CastRaises(cast_to, s) THEN None ELSE Cast(cast_to, s)
         ELSE PyStr(s)

----------------------------------------------------------------------------
(* The calls, shared by main() and by direct callers.                      *)

FallsThrough(returned_pc) == returned_pc

\* sys.exit() in both except clauses: the caller never gets control back
AfterError(returned_pc) == "exited"

\* convert_image_to_bitmap(image_path, t, limit), image_path holding file
RunConvert(file, t, limit, returned_pc) ==
    /\ width_limit' = limit
    /\ opened' = OpenOutcome(file)
    /\ IF OpenOutcome(file) # "ok"
       THEN /\ pc' = AfterError(returned_pc)
            /\ err' = OpenOutcome(file)
            /\ UNCHANGED <<src, img, bitmap>>
       ELSE /\ src' = file.image
            /\ IF /\ NeedsResize(file.image, limit)
                  /\ ResizeRaises(limit, NewHeight(file.image, limit))
               THEN /\ pc' = AfterError(returned_pc)
                    /\ err' = "Exception"
                    /\ UNCHANGED <<img, bitmap>>
               ELSE \E r \in Resized(file.image, limit) :
                      /\ img' = r
                      /\ bitmap' = PyStr(TrimmedBitmap(RawBitmap(r, t)))
                      /\ pc' = returned_pc
                      /\ UNCHANGED err

\* create_ascii_art(bm, msg); an uncaught ZeroDivisionError ends the caller
RunCreate(bm, msg, returned_pc, raised_pc) ==
    IF ComposeRaises(bm, msg)
    THEN /\ pc' = raised_pc
         /\ err' = "ZeroDivisionError"
         /\ UNCHANGED ascii_art
    ELSE /\ ascii_art' = PyStr(ComposeAll(bm, msg))
         /\ pc' = returned_pc
         /\ UNCHANGED err

----------------------------------------------------------------------------
(* main().                                                                 *)

SomePath == <<"a", ".", "p", "n", "g">>
OutPath == <<"a", ".", "t", "x", "t">>

Init ==
    /\ pc = "select_file"
    /\ image_path = None
    /\ user_input = None
    /\ threshold = None
    /\ message = None
    /\ width_limit = DefaultWidthLimit
    /\ opened = "not yet"
    /\ src = NoImage
    /\ img = NoImage
    /\ bitmap = None
    /\ ascii_art = None
    /\ out_file = None
    /\ err = ""

\* select_file: the dialog returns a path, or "" when it is cancelled
SelectFile ==
    /\ pc = "select_file"
    /\ \E selected_file \in {<<>>, SomePath} :
         IF selected_file = <<>>
         THEN /\ pc' = "exited"
              /\ err' = "No image selected"
              /\ UNCHANGED image_path
         ELSE /\ image_path' = PyStr(selected_file)
              /\ pc' = "get_threshold"
              /\ UNCHANGED err
    /\ UNCHANGED <<user_input, threshold, message, width_limit, opened, src,
                   img, bitmap, ascii_art, out_file>>

\* threshold = get_input(..., int): one turn of its loop per step
GetThreshold ==
    /\ pc = "get_threshold"
    /\ \E typed \in UserInputs :
         /\ user_input' = PyStr(typed)
         /\ IF GetInputTurn(typed, "int") = None
            THEN UNCHANGED <<pc, threshold>>
            ELSE /\ threshold' = GetInputTurn(typed, "int")
                 /\ pc' = "get_message"
    /\ UNCHANGED <<image_path, message, width_limit, opened, src, img, bitmap,
                   ascii_art, out_file, err>>

\* message = get_input(..., str)
GetMessage ==
    /\ pc = "get_message"
    /\ \E typed \in UserInputs :
         /\ user_input' = PyStr(typed)
         /\ IF GetInputTurn(typed, "str") = None
            THEN UNCHANGED <<pc, message>>
            ELSE /\ message' = GetInputTurn(typed, "str")
                 /\ pc' = "convert_image_to_bitmap"
    /\ UNCHANGED <<image_path, threshold, width_limit, opened, src, img,
                   bitmap, ascii_art, out_file, err>>

\* input() raises EOFError when the console is closed: main() ends there
InputClosed ==
    /\ pc \in {"get_threshold", "get_message"}
    /\ pc' = "exited"
    /\ err' = "EOFError"
    /\ UNCHANGED <<image_path, user_input, threshold, message, width_limit,
                   opened, src, img, bitmap, ascii_art, out_file>>

\* bitmap = convert_image_to_bitmap(image_path, threshold)
ConvertImageToBitmap ==
    /\ pc = "convert_image_to_bitmap"
    /\ \E file \in Files :
         RunConvert(file, threshold.val, DefaultWidthLimit, "create_ascii_art")
    /\ UNCHANGED <<image_path, user_input, threshold, message, ascii_art,
                   out_file>>

\* ascii_art = create_ascii_art(bitmap, message)
CreateAsciiArt ==
    /\ pc = "create_ascii_art"
    /\ RunCreate(bitmap.val, message.val, "save_file", "exited")
    /\ UNCHANGED <<image_path, user_input, threshold, message, width_limit,
                   opened, src, img, bitmap, out_file>>

\* save_file(ascii_art, ...): writes the file, or exits when cancelled
SaveFile ==
    /\ pc = "save_file"
    /\ \E output_path \in {<<>>, OutPath} :
         IF output_path # <<>>
         THEN /\ out_file' = ascii_art
              /\ pc' = "done"
              /\ UNCHANGED err
         ELSE /\ pc' = "exited"
              /\ err' = "No file selected"
              /\ UNCHANGED out_file
    /\ UNCHANGED <<image_path, user_input, threshold, message, width_limit,
                   opened, src, img, bitmap, ascii_art>>

Next ==
    \/ SelectFile
    \/ GetThreshold
    \/ GetMessage
    \/ InputClosed
    \/ ConvertImageToBitmap
    \/ CreateAsciiArt
    \/ SaveFile

Spec == Init /\ [][Next]_vars

----------------------------------------------------------------------------
(* The two functions called directly.                                      *)

BitmapStrings == UNION {[1..n -> {DARK, LIGHT, NL}] : n \in 0..MaxLen}

InitCore ==
    /\ pc = "call"
    /\ image_path = PyStr(SomePath)
    /\ user_input = None
    /\ threshold = None
    /\ message = None
    /\ width_limit = DefaultWidthLimit
    /\ opened = "not yet"
    /\ src = NoImage
    /\ img = NoImage
    /\ bitmap = None
    /\ ascii_art = None
    /\ out_file = None
    /\ err = ""

\* convert_image_to_bitmap(image_path, t, limit)
CallConvert ==
    /\ pc = "call"
    /\ \E file \in Files, t \in Thresholds, limit \in WidthLimits :
         /\ threshold' = PyInt(t)
         /\ RunConvert(file, t, limit, "converted")
    /\ UNCHANGED <<image_path, user_input, message, ascii_art, out_file>>

\* create_ascii_art(bitmap, m) on the bitmap convert_image_to_bitmap returned
CallCreate ==
    /\ pc = "converted"
    /\ \E m \in Messages :
         /\ message' = PyStr(m)
         /\ RunCreate(bitmap.val, m, "composed", "raised")
    /\ UNCHANGED <<image_path, user_input, threshold, width_limit, opened,
                   src, img, bitmap, out_file>>

\* create_ascii_art(b, m) on any text b
CallCreateDirect ==
    /\ pc = "call"
    /\ \E b \in BitmapStrings, m \in Messages :
         /\ bitmap' = PyStr(b)
         /\ message' = PyStr(m)
         /\ RunCreate(b, m, "composed", "raised")
    /\ UNCHANGED <<image_path, user_input, threshold, width_limit, opened,
                   src, img, out_file>>

NextCore ==
    \/ CallConvert
    \/ CallCreate
    \/ CallCreateDirect

SpecCore == InitCore /\ [][NextCore]_vars

----------------------------------------------------------------------------
(* Reading a text as a grid: rows are separated by line breaks.            *)

Largest(S) == IF S = {} THEN 0 ELSE CHOOSE x \in S : \A z \in S : z <= x
Breaks(s) == {j \in 1..Len(s) : s[j] = NL}
CountNL(s) == Cardinality(Breaks(s))
\* the index of the n-th line break; 0 before the text, Len(s)+1 after it
NthBreak(s, n) ==
    IF n = 0 THEN 0
    ELSE IF n > CountNL(s) THEN Len(s) + 1
    ELSE CHOOSE j \in Breaks(s) : Cardinality({b \in Breaks(s) : b <= j}) = n
\* the row (from 1) and the column (from 0) of the character at index k
RowOf(s, k) == 1 + Cardinality({j \in Breaks(s) : j < k})
ColumnOf(s, k) == k - 1 - Largest({j \in Breaks(s) : j < k})
LightBefore(s, k) == Cardinality({j \in 1..(k-1) : s[j] = LIGHT})
RowLen(s, y) == NthBreak(s, y) - NthBreak(s, y - 1) - 1
\* the cell in row y, column x (both from 1); blank beyond the row's end
CellAt(s, y, x) ==
    IF x <= RowLen(s, y) THEN s[NthBreak(s, y - 1) + x] ELSE DARK
LightColumns(i, y, t) == {x \in 1..i.width : i.px[y][x] >= t}

----------------------------------------------------------------------------
(* C1, as stated: the k-th LIGHT cell of the whole bitmap, in row-major    *)
(* order, receives message[k mod len(message)].                            *)
C1_CursorSpansBitmap ==
    (pc = "composed" /\ Len(message.val) > 0) =>
        \A k \in 1..Len(bitmap.val) :
            bitmap.val[k] = LIGHT =>
                /\ k <= Len(ascii_art.val)
                /\ ascii_art.val[k] =
                     message.val[(LightBefore(bitmap.val, k) % Len(message.val)) + 1]

(* C1, amended: a LIGHT cell in column c of its row (c from 0) receives    *)
(* message[c mod len(message)]; the index counts DARK cells too and starts *)
(* again at 0 on every row.  Every other character is kept, but for a      *)
(* final line break, which is dropped.                                     *)
C1_IndexIsColumn ==
    (pc = "composed" /\ Len(message.val) > 0) =>
        /\ Len(ascii_art.val) =
             IF Len(bitmap.val) > 0 /\ bitmap.val[Len(bitmap.val)] = NL
             THEN Len(bitmap.val) - 1 ELSE Len(bitmap.val)
        /\ \A k \in 1..Len(ascii_art.val) :
             ascii_art.val[k] =
                IF bitmap.val[k] = LIGHT
                THEN message.val[(ColumnOf(bitmap.val, k) % Len(message.val)) + 1]
                ELSE bitmap.val[k]

C1_Witness ==
    /\ pc = "composed"
    /\ Len(message.val) > 0
    /\ \E k \in 1..Len(bitmap.val) :
         /\ bitmap.val[k] = LIGHT
         /\ RowOf(bitmap.val, k) > 1
         /\ ColumnOf(bitmap.val, k) % Len(message.val)
              # LightBefore(bitmap.val, k) % Len(message.val)

(* C2: the final AsciiArt has as many rows as the (resized) image is high, *)
(* rows with no LIGHT cell included.                                       *)
C2_RowsEqualHeight ==
    (pc = "composed" /\ opened = "ok" /\ Len(message.val) > 0) =>
        CountNL(ascii_art.val) + 1 = img.height

(* C3: create_ascii_art with an empty message fails for every bitmap that  *)
(* has at least one cell; it never returns.                                *)
C3_EmptyMessageRejected ==
    ( /\ pc \in {"composed", "raised"}
      /\ message.val = <<>>
      /\ \E k \in 1..Len(bitmap.val) : bitmap.val[k] # NL )
        => pc = "raised" /\ ascii_art = None

(* C4: convert_image_to_bitmap fails and returns no bitmap whenever        *)
(* threshold is outside 0..255 or width_limit <= 0.                        *)
C4_InvalidArgumentsRejected ==
    ( /\ opened # "not yet"
      /\ (threshold.val \notin 0..255 \/ width_limit <= 0) )
        => pc = "exited" /\ bitmap = None

(* C5, as stated: a wider image is resized to width_limit by               *)
(* round(height / width * width_limit * 0.55).                             *)
C5_HeightRounded ==
    (pc = "converted" /\ src.width > width_limit /\ width_limit > 0) =>
        /\ img.width = width_limit
        /\ LET num == 55 * src.height * width_limit
               den == 100 * src.width
           IN  /\ 2 * (num - img.height * den) <= den
               /\ 2 * (img.height * den - num) <= den

(* C5, amended: the new height is the product truncated to an integer,     *)
(* int(height / width * width_limit * 0.55); the image is resized to       *)
(* (width_limit, that height) when it is at least 1, and when it is 0 the  *)
(* resize raises and the program exits without a bitmap.                   *)
C5_HeightTruncated ==
    (opened = "ok" /\ src.width > width_limit /\ width_limit > 0) =>
        LET num == 55 * src.height * width_limit
            den == 100 * src.width
        IN  IF num < den
            THEN pc = "exited" /\ err = "Exception" /\ bitmap = None
            ELSE /\ pc # "exited"
                 /\ img.width = width_limit
                 /\ img.height * den <= num
                 /\ num < (img.height + 1) * den

C5_Witness ==
    /\ pc = "converted"
    /\ src.width > width_limit
    /\ width_limit > 0
    /\ 2 * (55 * src.height * width_limit - img.height * 100 * src.width)
         > 100 * src.width

C7_NoUpscale ==
    (opened = "ok" /\ src.width <= width_limit) =>
        /\ pc # "exited"
        /\ img = src
        /\ CountNL(bitmap.val) + 1 = src.height
        /\ \A y \in 1..src.height : RowLen(bitmap.val, y) <= src.width

C7_Witness ==
    /\ pc = "converted"
    /\ src.width = width_limit
    /\ src.height > 1

(* C8: every row of the bitmap is its scanline without the trailing run of *)
(* DARK cells: it ends at the rightmost LIGHT pixel, is empty when the     *)
(* scanline has none, and every kept cell stays in its column.             *)
C8_TrailingDarkTrimmed ==
    pc = "converted" =>
        \A y \in 1..img.height :
            /\ RowLen(bitmap.val, y) = Largest(LightColumns(img, y, threshold.val))
            /\ \A x \in 1..RowLen(bitmap.val, y) :
                 CellAt(bitmap.val, y, x) =
                    IF x \in LightColumns(img, y, threshold.val) THEN LIGHT ELSE DARK

C8_Witness ==
    /\ pc = "converted"
    /\ \E y \in 1..img.height :
         /\ img.width >= 3
         /\ RowLen(bitmap.val, y) = 2
         /\ CellAt(bitmap.val, y, 1) = DARK
         /\ CellAt(bitmap.val, y, 2) = LIGHT

(* C9: when the image cannot be opened or decoded, no bitmap is returned   *)
(* and neither create_ascii_art nor save_file runs; create_ascii_art only  *)
(* ever starts after convert_image_to_bitmap has returned a bitmap.        *)
C9_FailsFully ==
    /\ (opened \notin {"not yet", "ok"} \/ err \in {"FileNotFoundError", "Exception"})
          => /\ pc = "exited"
             /\ bitmap = None
             /\ ascii_art = None
             /\ out_file = None
    /\ (pc \in {"create_ascii_art", "save_file", "done"}
          \/ ascii_art # None \/ out_file # None)
          => /\ opened = "ok"
             /\ bitmap # None
             /\ err \notin {"FileNotFoundError", "Exception"}

C9_Witness ==
    /\ pc = "exited"
    /\ opened = "FileNotFoundError"
    /\ message # None

\* s is white space, an optional sign, one or more digits, white space
LooksLikeInteger(s) ==
    LET ink == {k \in 1..Len(s) : s[k] \notin Whitespace}
    IN  /\ ink # {}
        /\ \A k \in 1..Len(s) :
             (\E a \in ink : a < k) /\ (\E b \in ink : k < b) => k \in ink
        /\ \E k \in ink : s[k] \in Digits
        /\ \A k \in ink :
             \/ s[k] \in Digits
             \/ s[k] \in {"+", "-"} /\ \A a \in ink : k <= a

ValidInput(s, at) ==
    /\ Len(s) > 0
    /\ at = "get_threshold" => LooksLikeInteger(s)

C10_Step ==
    (pc \in {"get_threshold", "get_message"} /\ user_input'.tag = "str"
        /\ pc' # "exited") =>
        IF ValidInput(user_input'.val, pc)
        THEN pc' # pc =>
               IF pc = "get_threshold"
               THEN threshold'.tag = "int" /\ message' = message
               ELSE message' = user_input' /\ threshold' = threshold
        ELSE pc' = pc /\ threshold' = threshold /\ message' = message

C10_Called ==
    /\ pc = "convert_image_to_bitmap" => threshold.tag = "int"
    /\ pc \in {"convert_image_to_bitmap", "create_ascii_art"} =>
          message.tag = "str" /\ Len(message.val) > 0

(* C10: get_input returns only on an input that is non-empty and casts;    *)
(* an empty input or one whose cast raises ValueError leaves the prompt    *)
(* open and returns nothing.  So main() never calls create_ascii_art with  *)
(* an empty message nor convert_image_to_bitmap with a non-integer         *)
(* threshold.                                                              *)
C10_GetInputValidates == [][C10_Step]_vars /\ []C10_Called

C10_Witness ==
    /\ pc = "get_message"
    /\ threshold.tag = "int"
    /\ user_input = PyStr(<<>>)

====
